---- MODULE Spec2Model ----
(***************************************************************************)
(* Model of drive_gpt_app.py: the Google Drive file analyzer.              *)
(*                                                                         *)
(* One Streamlit script run after authentication is modelled: the Drive    *)
(* listing, the user's selection, the map step (get_file_content plus one  *)
(* gpt-4o-mini summarization per text file) and the reduce step (one       *)
(* gpt-4o synthesis request).  The Drive API, the decoding libraries and   *)
(* the OpenAI API are the environment: every outcome they can deliver is   *)
(* a nondeterministic input of the step that calls them.                   *)
(***************************************************************************)
EXTENDS Integers, Sequences, FiniteSets, TLC

VARIABLES
    pc,              \* position of the script run
    files,           \* results.get("files", [])
    file_options,    \* label -> file descriptor (dict comprehension)
    selected,        \* selected_files_display
    user_prompt,     \* text area content
    idx,             \* index of the next file of the for loop (1-based)
    summaries,       \* list of summary strings
    image_parts,     \* list of {"name", "bytes"}
    ui,              \* what the page shows, in order
    reqs,            \* external requests issued, in order
    trace            \* one record per get_file_content call

vars == <<pc, files, file_options, selected, user_prompt, idx,
          summaries, image_parts, ui, reqs, trace>>

----------------------------------------------------------------------------
(* Bounds *)

\* largest number of options the user selects in one run
MaxSel == 3

----------------------------------------------------------------------------
(* Strings *)

\* Python: needle in s
Contains(needle, s) ==
    \E k \in 1..(Len(s) - Len(needle) + 1) :
        SubSeq(s, k, k + Len(needle) - 1) = needle

\* Python: s.startswith(p)
StartsWith(s, p) == Len(s) >= Len(p) /\ SubSeq(s, 1, Len(p)) = p

RECURSIVE Join(_, _)
\* Python: sep.join(parts)
Join(parts, sep) ==
    IF parts = <<>> THEN ""
    ELSE IF Len(parts) = 1 THEN parts[1]
    ELSE parts[1] \o sep \o Join(Tail(parts), sep)

----------------------------------------------------------------------------
(* base64.b64encode over byte sequences (tuples of 0..255) *)

B64Alphabet == "ABCDEFGHIJKLMNOPQRSTUVWXYZabcdefghijklmnopqrstuvwxyz0123456789+/"

B64Char(n) == SubSeq(B64Alphabet, n + 1, n + 1)

RECURSIVE B64Encode(_)
B64Encode(bytes) ==
    IF Len(bytes) = 0 THEN ""
    ELSE IF Len(bytes) = 1 THEN
        B64Char(bytes[1] \div 4) \o B64Char((bytes[1] % 4) * 16) \o "=="
    ELSE IF Len(bytes) = 2 THEN
        B64Char(bytes[1] \div 4)
            \o B64Char((bytes[1] % 4) * 16 + bytes[2] \div 16)
            \o B64Char((bytes[2] % 16) * 4) \o "="
    ELSE
        B64Char(bytes[1] \div 4)
            \o B64Char((bytes[1] % 4) * 16 + bytes[2] \div 16)
            \o B64Char((bytes[2] % 16) * 4 + bytes[3] \div 64)
            \o B64Char(bytes[3] % 64)
            \o B64Encode(SubSeq(bytes, 4, Len(bytes)))

----------------------------------------------------------------------------
(* The Drive account: what files().list, get_media and export_media see *)

WordMime == "application/vnd.openxmlformats-officedocument.wordprocessingml.document"
PresMime == "application/vnd.openxmlformats-officedocument.presentationml.presentation"

File(id, name, mime) == [id |-> id, name |-> name, mimeType |-> mime]

\* uploaded files: a PDF, a Word document, an image and a text file
ListingOffice ==
    << File("f1", "report.pdf", "application/pdf"),
       File("f2", "notes.docx", WordMime),
       File("f4", "photo.png", "image/png"),
       File("f5", "readme.txt", "text/plain") >>

\* Google Workspace files, which get_media refuses
ListingWorkspace ==
    << File("g1", "Plan", "application/vnd.google-apps.document"),
       File("g2", "Budget", "application/vnd.google-apps.spreadsheet"),
       File("g4", "Link", "application/vnd.google-apps.shortcut"),
       File("g5", "Survey", "application/vnd.google-apps.form") >>

\* a presentation of each kind and a file of no supported type
ListingSlides ==
    << File("g3", "Pitch", "application/vnd.google-apps.presentation"),
       File("f3", "deck.pptx", PresMime),
       File("e3", "archive.zip", "application/zip") >>

\* MIME types matching two substring rules, and two files that share name
\* and MIME type
ListingEdge ==
    << File("e1", "scan", "text/pdf"),
       File("e2", "pic", "image/x-text"),
       File("e4", "notes.txt", "text/plain"),
       File("e5", "notes.txt", "text/plain") >>

\* MIME types matching two adjacent rules of the dispatch chain, and one
\* that contains 'google-apps' without being a Workspace type
ListingPrecedence ==
    << File("p1", "a", "application/pdf+" \o WordMime),
       File("p2", "b", WordMime \o "+" \o PresMime),
       File("p3", "c", PresMime \o ";image"),
       File("p4", "d", "application/x-google-apps-pdf") >>

Listings ==
    {ListingOffice, ListingWorkspace, ListingSlides, ListingEdge, ListingPrecedence}

\* the bytes get_media delivers for an image file
DriveBytes(file_id) ==
    CASE file_id = "f4" -> <<137, 80, 78, 71>>
      [] file_id = "e2" -> <<255, 216, 255>>
      [] file_id = "p3" -> <<71, 73>>
      [] file_id = "e4" -> <<110, 111, 116, 101>>
      [] OTHER -> <<37>>

Prompts == {"What changed?"}

----------------------------------------------------------------------------
(* Outcomes of the environment during one get_file_content call *)

FetchOutcomes == {"ok", "http_access", "http_other"}   \* get_media download
DecodeOutcomes == {"ok", "error"}                      \* fitz, docx, pptx, PIL
ExportOutcomes == {"ok", "http_error"}                 \* export_media download
StrictOutcomes == {"ok", "error"}                      \* bytes.decode("utf-8")

\* a step that is never reached has no outcome to draw: it is left "ok"
Envs ==
    {e \in [fetch : FetchOutcomes, decode : DecodeOutcomes,
            export : ExportOutcomes, strict : StrictOutcomes] :
        /\ e.fetch = "ok" => e.export = "ok" /\ e.strict = "ok"
        /\ e.fetch # "ok" => e.decode = "ok"
        /\ e.export # "ok" => e.strict = "ok"}

NoneValue == "None"

\* the chain with the text rule tried before the image rule
DispatchRule_TextFirst(mime_type) ==
    IF Contains("pdf", mime_type) THEN "pdf"
    ELSE IF Contains("vnd.openxmlformats-officedocument.wordprocessingml.document", mime_type)
        THEN "docx"
    ELSE IF Contains("vnd.openxmlformats-officedocument.presentationml.presentation", mime_type)
        THEN "pptx"
    ELSE IF Contains("text", mime_type) THEN "text"
    ELSE IF Contains("image", mime_type) THEN "image"
    ELSE "unsupported"

\* the if/elif chain over mime_type after a successful download
DispatchRule(mime_type) ==
    IF Contains("pdf", mime_type) THEN "pdf"
    ELSE IF Contains("vnd.openxmlformats-officedocument.wordprocessingml.document", mime_type)
        THEN "docx"
    ELSE IF Contains("vnd.openxmlformats-officedocument.presentationml.presentation", mime_type)
        THEN "pptx"
    ELSE IF Contains("image", mime_type) THEN "image"
    ELSE IF Contains("text", mime_type) THEN "text"
    ELSE "unsupported"

\* the text a decoding library extracts from the downloaded bytes
ExtractedText(rule, file_id) == rule \o " text of " \o file_id

\* the export table with the spreadsheet exported as plain text
ExportMimeType_SheetAsPlain(mime_type) ==
    IF mime_type = "application/vnd.google-apps.document" THEN "text/plain"
    ELSE IF mime_type = "application/vnd.google-apps.spreadsheet" THEN "text/plain"
    ELSE IF mime_type = "application/vnd.google-apps.presentation" THEN "text/plain"
    ELSE NoneValue

\* export_mime_type in the except branch
ExportMimeType(mime_type) ==
    IF mime_type = "application/vnd.google-apps.document" THEN "text/plain"
    ELSE IF mime_type = "application/vnd.google-apps.spreadsheet" THEN "text/csv"
    ELSE IF mime_type = "application/vnd.google-apps.presentation" THEN "text/plain"
    ELSE NoneValue

Returned(type, content, rule, requests) ==
    [raised |-> FALSE, type |-> type, content |-> content, rule |-> rule,
     reqs |-> requests]

\* an exception other than HttpError leaves get_file_content
Raised(rule, requests) ==
    [raised |-> TRUE, type |-> "none", content |-> "", rule |-> rule,
     reqs |-> requests]

GetMedia(file_id) ==
    [op |-> "get_media", fileId |-> file_id, arg |-> "", messages |-> <<>>,
     failed |-> FALSE, response |-> ""]
ExportMedia(file_id, mime, outcome) ==
    [op |-> "export_media", fileId |-> file_id, arg |-> mime, messages |-> <<>>,
     failed |-> outcome # "ok", response |-> ""]

\* the try body after the download loop
Dispatch(file_info, env) ==
    LET file_id == file_info.id
        mime_type == file_info.mimeType
        rule == DispatchRule(mime_type)
        got == <<GetMedia(file_id)>>
    IN  CASE rule \in {"pdf", "docx", "pptx"} ->
                IF env.decode = "ok"
                THEN Returned("text", ExtractedText(rule, file_id), rule, got)
                ELSE Raised(rule, got)
          [] rule = "image" ->
                IF env.decode = "ok"
                THEN Returned("image", DriveBytes(file_id), rule, got)
                ELSE Raised(rule, got)
          [] rule = "text" ->
                Returned("text", ExtractedText(rule, file_id), rule, got)
          [] OTHER ->
                Returned("unsupported", "File type ('" \o mime_type \o "')", rule, got)

\* the except HttpError branch
Fallback(file_info, env) ==
    LET file_id == file_info.id
        mime_type == file_info.mimeType
        got == <<GetMedia(file_id)>>
        export_mime_type == ExportMimeType(mime_type)
    IN  IF Contains("google-apps", mime_type)
        THEN IF mime_type = "application/vnd.google-apps.shortcut"
             THEN Returned("unsupported", "Google Drive Shortcut", "shortcut", got)
             ELSE IF export_mime_type # NoneValue
             THEN LET all == Append(got, ExportMedia(file_id, export_mime_type,
                                                       env.export))
                  IN  IF env.export = "ok"
                      THEN IF env.strict = "ok"
                           THEN Returned("text", ExtractedText("export", file_id),
                                         "export", all)
                           ELSE Raised("export", all)
                      ELSE Returned("unsupported", "Export Error: <HttpError>",
                                    "export", all)
             ELSE Returned("unsupported",
                           "Google Workspace type (" \o mime_type \o ")",
                           "workspace", got)
        ELSE Returned("unsupported", "Google Drive API Error", "api_error", got)

get_file_content(file_info, env) ==
    IF env.fetch = "ok" THEN Dispatch(file_info, env) ELSE Fallback(file_info, env)

----------------------------------------------------------------------------
(* get_ai_response *)

ChatContents == {"Key points.", "ERROR: codes are listed."}

\* what chat.completions.create does: raise, or answer with a content
ChatOutcomes ==
    {[raised |-> TRUE, text |-> "Connection error."]}
        \cup {[raised |-> FALSE, text |-> c] : c \in ChatContents}

get_ai_response(outcome) ==
    IF outcome.raised THEN "ERROR: " \o outcome.text ELSE outcome.text

\* one chat.completions.create call, with what get_ai_response returned for it
Chat(model, messages, file_id, outcome) ==
    [op |-> "chat", fileId |-> file_id, arg |-> model, messages |-> messages,
     failed |-> outcome.raised, response |-> get_ai_response(outcome)]

----------------------------------------------------------------------------
(* The script run *)

Label(file) == file.name \o " (" \o file.mimeType \o ")"

\* {f"{file['name']} ({file['mimeType']})": file for file in files}:
\* a later file with the same label replaces the earlier one
FileOptionsOf(listing) ==
    [l \in {Label(listing[k]) : k \in DOMAIN listing} |->
        listing[CHOOSE k \in DOMAIN listing :
                    /\ Label(listing[k]) = l
                    /\ \A j \in DOMAIN listing : Label(listing[j]) = l => j <= k]]

\* what st.multiselect can return: distinct options, in the order chosen
Selections(options) ==
    {s \in UNION {[1..n -> options] : n \in 1..MaxSel} :
        \A a, b \in DOMAIN s : a # b => s[a] # s[b]}

Show(kind, text) == [kind |-> kind, text |-> text]

Init ==
    /\ pc = "list"
    /\ files = <<>>
    /\ file_options = <<>>
    /\ selected = <<>>
    /\ user_prompt = ""
    /\ idx = 1
    /\ summaries = <<>>
    /\ image_parts = <<>>
    /\ ui = <<>>
    /\ reqs = <<>>
    /\ trace = <<>>

\* files().list(...).execute() answers with a non-empty listing
ListFiles ==
    /\ pc = "list"
    /\ \E listing \in Listings :
        /\ files' = listing
        /\ file_options' = FileOptionsOf(listing)
    /\ pc' = "select"
    /\ UNCHANGED <<selected, user_prompt, idx, summaries, image_parts, ui, reqs, trace>>

\* files().list(...).execute() answers with no file
ListNoFiles ==
    /\ pc = "list"
    /\ ui' = Append(ui, Show("write", "No files found in your Google Drive."))
    /\ pc' = "done"
    /\ UNCHANGED <<files, file_options, selected, user_prompt, idx, summaries,
                   image_parts, reqs, trace>>

\* files().list(...).execute() raises HttpError: the outer except
ListError ==
    /\ pc = "list"
    /\ ui' = ui \o << Show("error", "A Google Drive API error occurred: <HttpError>"),
                      Show("info", "Your Google authentication may have expired. Please try logging out and logging back in.") >>
    /\ pc' = "done"
    /\ UNCHANGED <<files, file_options, selected, user_prompt, idx, summaries,
                   image_parts, reqs, trace>>

\* the Analyze button, enabled with a selection and a prompt
ClickAnalyze ==
    /\ pc = "select"
    /\ \E sel \in Selections(DOMAIN file_options), prompt \in Prompts :
        /\ sel # <<>> /\ prompt # ""
        /\ selected' = sel
        /\ user_prompt' = prompt
    /\ summaries' = <<>>
    /\ image_parts' = <<>>
    /\ idx' = 1
    /\ pc' = "map"
    /\ UNCHANGED <<files, file_options, ui, reqs, trace>>

SummaryPrompt(name, content) ==
    "Summarize the key points of the following document named '" \o name
        \o "':\n\n" \o content

SummaryEntry(name, summary) == "--- Summary of " \o name \o " ---\n" \o summary

\* the entry put in front instead of appended
AddSummary_Prepend(list, entry) == <<entry>> \o list

\* summaries.append(...)
AddSummary(list, entry) == Append(list, entry)

\* image_parts.append(...)
AddImage(list, part) == Append(list, part)

TraceRecord(file_display, file_info, env, r) ==
    [label |-> file_display, id |-> file_info.id, mimeType |-> file_info.mimeType,
     fetch |-> env.fetch, raised |-> r.raised, type |-> r.type,
     content |-> r.content, rule |-> r.rule]

\* one iteration of the for loop over selected_files_display
MapStep ==
    /\ pc = "map"
    /\ idx <= Len(selected)
    /\ \E env \in Envs :
        LET file_display == selected[idx]
            file_info == file_options[file_display]
            r == get_file_content(file_info, env)
            shown == Append(ui, Show("info", "Processing: " \o file_info.name))
        IN  /\ trace' = Append(trace, TraceRecord(file_display, file_info, env, r))
            /\ IF r.raised
               THEN \* the exception leaves the loop and the script run
                    /\ pc' = "crashed"
                    /\ ui' = Append(shown, Show("exception", "Traceback"))
                    /\ reqs' = reqs \o r.reqs
                    /\ UNCHANGED <<idx, summaries, image_parts>>
               ELSE /\ pc' = "map"
                    /\ idx' = idx + 1
                    /\ CASE r.type = "text" ->
                              \E outcome \in ChatOutcomes :
                                LET summary_messages ==
                                        << [role |-> "user",
                                            content |-> SummaryPrompt(file_info.name,
                                                                      r.content)] >>
                                    summary == get_ai_response(outcome)
                                IN  /\ reqs' = reqs \o r.reqs
                                            \o <<Chat("gpt-4o-mini", summary_messages,
                                                   file_info.id, outcome)>>
                                    /\ IF StartsWith(summary, "ERROR:")
                                       THEN /\ ui' = Append(shown, Show("error",
                                                    "Could not summarize "
                                                        \o file_info.name
                                                        \o ": " \o summary))
                                            /\ UNCHANGED summaries
                                       ELSE /\ summaries' = AddSummary(summaries,
                                                    SummaryEntry(file_info.name, summary))
                                            /\ ui' = shown
                                    /\ UNCHANGED image_parts
                         [] r.type = "image" ->
                              /\ image_parts' = AddImage(image_parts,
                                      [name |-> file_info.name, bytes |-> r.content])
                              /\ reqs' = reqs \o r.reqs
                              /\ ui' = shown
                              /\ UNCHANGED summaries
                         [] OTHER ->
                              /\ ui' = Append(shown, Show("warning",
                                      "Skipping unsupported file: " \o file_info.name
                                          \o " (" \o r.content \o ")"))
                              /\ reqs' = reqs \o r.reqs
                              /\ UNCHANGED <<summaries, image_parts>>
    /\ UNCHANGED <<files, file_options, selected, user_prompt>>

FinalContext(list) ==
    "Based on the following summaries and images, please answer the user's question.\n\n"
        \o (IF list # <<>> THEN Join(list, "\n\n") ELSE "")

ImagePart(img) ==
    [type |-> "image_url",
     body |-> "data:image/jpeg;base64," \o B64Encode(img.bytes)]

\* message_content of the final request
MessageContent(list, images, prompt) ==
    << [type |-> "text", body |-> FinalContext(list)],
       [type |-> "text", body |-> "\n\n--- USER QUESTION ---\n" \o prompt] >>
        \o [k \in DOMAIN images |-> ImagePart(images[k])]

\* what the page shows for final_response
ShowFinalResponse(final_response) ==
    << Show("markdown", "### AI Analysis"), Show("markdown", final_response) >>

\* after the loop: if summaries or image_parts, the final request
ReduceStep ==
    /\ pc = "map"
    /\ idx > Len(selected)
    /\ summaries # <<>> \/ image_parts # <<>>
    /\ \E outcome \in ChatOutcomes :
        LET final_messages ==
                << [role |-> "user",
                    content |-> MessageContent(summaries, image_parts, user_prompt)] >>
            final_response == get_ai_response(outcome)
        IN  /\ reqs' = Append(reqs, Chat("gpt-4o", final_messages, "", outcome))
            /\ ui' = Append(ui, Show("info",
                        "Synthesizing final answer from " \o ToString(Len(summaries))
                            \o " summaries and " \o ToString(Len(image_parts))
                            \o " images."))
                      \o ShowFinalResponse(final_response)
    /\ pc' = "done"
    /\ UNCHANGED <<files, file_options, selected, user_prompt, idx, summaries,
                   image_parts, trace>>

\* after the loop with both lists empty: the script run ends
NothingToSynthesize ==
    /\ pc = "map"
    /\ idx > Len(selected)
    /\ summaries = <<>> /\ image_parts = <<>>
    /\ pc' = "done"
    /\ UNCHANGED <<files, file_options, selected, user_prompt, idx, summaries,
                   image_parts, ui, reqs, trace>>

Next ==
    \/ ListFiles
    \/ ListNoFiles
    \/ ListError
    \/ ClickAnalyze
    \/ MapStep
    \/ ReduceStep
    \/ NothingToSynthesize

Spec == Init /\ [][Next]_vars

----------------------------------------------------------------------------
(* Vocabulary of the properties *)

\* an Analyze run has ended: normally, or by an uncaught exception
RunEnded == pc \in {"done", "crashed"} /\ selected # <<>>

NameOf(k) == file_options[selected[k]].name
IdOf(k) == file_options[selected[k]].id

SummaryHeader(name) == "--- Summary of " \o name \o " ---\n"

SummariesOf(name) ==
    {i \in DOMAIN summaries : StartsWith(summaries[i], SummaryHeader(name))}
ImagesOf(name) == {i \in DOMAIN image_parts : image_parts[i].name = name}
WarningsOf(name) ==
    {i \in DOMAIN ui :
        /\ ui[i].kind = "warning"
        /\ StartsWith(ui[i].text, "Skipping unsupported file: " \o name \o " (")}
ErrorsOf(name) ==
    {i \in DOMAIN ui :
        /\ ui[i].kind = "error"
        /\ StartsWith(ui[i].text, "Could not summarize " \o name \o ":")}

\* the number of terminal outcomes the run gave the file of that name
Outcomes(name) ==
    Cardinality(SummariesOf(name)) + Cardinality(ImagesOf(name))
        + Cardinality(WarningsOf(name)) + Cardinality(ErrorsOf(name))

\* get_file_content was called for the k-th selected file and returned
Extracted(k) == k <= Len(trace) /\ ~trace[k].raised

SummaryRequests(k) ==
    {i \in DOMAIN reqs :
        reqs[i].op = "chat" /\ reqs[i].arg = "gpt-4o-mini" /\ reqs[i].fileId = IdOf(k)}
SynthesisRequests ==
    {i \in DOMAIN reqs : reqs[i].op = "chat" /\ reqs[i].arg = "gpt-4o"}
ExportRequests(file_id) ==
    {i \in DOMAIN reqs : reqs[i].op = "export_media" /\ reqs[i].fileId = file_id}

\* get_ai_response returned an "ERROR:"-prefixed string for the k-th file
SummarizationFailed(k) ==
    \E i \in SummaryRequests(k) : StartsWith(reqs[i].response, "ERROR:")
SummarizationSucceeded(k) ==
    \E i \in SummaryRequests(k) : ~StartsWith(reqs[i].response, "ERROR:")

Produced(k) == SummariesOf(NameOf(k)) # {} \/ ImagesOf(NameOf(k)) # {}

\* a message about one file, shown inside the loop
PerFileMessage(m) ==
    \/ m.kind = "info" /\ StartsWith(m.text, "Processing: ")
    \/ m.kind = "warning" /\ StartsWith(m.text, "Skipping unsupported file: ")
    \/ m.kind = "error" /\ StartsWith(m.text, "Could not summarize ")

----------------------------------------------------------------------------
(* Properties *)

\* C1: when an Analyze run has ended, every selected file has exactly one
\* terminal outcome: one summary, or one image part, or one recorded
\* warning (unsupported) or error (summarization failed).
C1_ExactlyOneOutcome ==
    RunEnded => \A k \in DOMAIN selected : Outcomes(NameOf(k)) = 1

\* C2: no per-file failure aborts the batch: a run that has ended has ended
\* at the synthesize decision, after get_file_content returned for every
\* selected file.
C2_NoAbort ==
    RunEnded =>
        /\ pc = "done"
        /\ \A k \in DOMAIN selected : Extracted(k)

\* C3: when the run has ended and the summarization of file X failed, an
\* error is recorded for X, X is not in summaries, every later file was
\* extracted and (if text) sent to the summarizer, and the synthesis request
\* was issued if another file produced a summary or an image.
C3_SummarizerFailureIsolated ==
    RunEnded =>
        \A k \in DOMAIN selected :
            SummarizationFailed(k) =>
                /\ ErrorsOf(NameOf(k)) # {}
                /\ SummariesOf(NameOf(k)) = {}
                /\ \A j \in DOMAIN selected :
                        j > k => /\ Extracted(j)
                                 /\ trace[j].type = "text" => SummaryRequests(j) # {}
                /\ (\E j \in DOMAIN selected : j # k /\ Produced(j))
                        => SynthesisRequests # {}

\* C4: a run that ends with both lists empty never issued the synthesis
\* request and showed a terminal message that is not about a single file.
C4_NoSupportedFilesReported ==
    (pc = "done" /\ selected # <<>> /\ summaries = <<>> /\ image_parts = <<>>) =>
        /\ SynthesisRequests = {}
        /\ \E i \in DOMAIN ui : ~PerFileMessage(ui[i])

\* C5: a run that has ended and produced a summary or an image issued the
\* synthesis request exactly once, as its last request, after
\* get_file_content returned for every selected file.
C5_SynthesisOnceAfterAll ==
    (RunEnded /\ (summaries # <<>> \/ image_parts # <<>>)) =>
        /\ Cardinality(SynthesisRequests) = 1
        /\ \A i \in SynthesisRequests : i = Len(reqs)
        /\ \A k \in DOMAIN selected : Extracted(k)

\* C9: the result of a failed model call (one in which the API call raised,
\* returned by get_ai_response with the "ERROR:" prefix) is never an entry of
\* summaries and is never shown as the final answer.
C9_ErrorNeverTreatedAsContent ==
    \A r \in DOMAIN reqs :
        (reqs[r].op = "chat" /\ reqs[r].failed) =>
            /\ \A i \in DOMAIN summaries :
                    ~Contains(" ---\n" \o reqs[r].response, summaries[i])
            /\ \A i \in DOMAIN ui :
                    ui[i].kind = "markdown" => ui[i].text # reqs[r].response

\* C10: the options are in bijection with the listed files: as many options
\* as files, and the option built from a file maps back to that file's id.
C10_OptionsInjective ==
    files # <<>> =>
        /\ Cardinality(DOMAIN file_options) = Len(files)
        /\ \A k \in DOMAIN files : file_options[Label(files[k])].id = files[k].id

----------------------------------------------------------------------------
(* Dispatch and fallback of get_file_content *)

RuleOrder == <<"pdf", "docx", "pptx", "image", "text">>

RuleNeedle(rule) ==
    CASE rule = "pdf" -> "pdf"
      [] rule = "docx" -> "vnd.openxmlformats-officedocument.wordprocessingml.document"
      [] rule = "pptx" -> "vnd.openxmlformats-officedocument.presentationml.presentation"
      [] rule = "image" -> "image"
      [] rule = "text" -> "text"

MatchingRules(mime) ==
    {n \in DOMAIN RuleOrder : Contains(RuleNeedle(RuleOrder[n]), mime)}

EarliestRule(mime) ==
    IF MatchingRules(mime) = {} THEN "unsupported"
    ELSE RuleOrder[CHOOSE n \in MatchingRules(mime) :
                        \A m \in MatchingRules(mime) : n <= m]

\* the tables of the listed MIME types, computed once
ListedMimeTypes == UNION {{l[k].mimeType : k \in DOMAIN l} : l \in Listings}
MatchingRulesOf == [m \in ListedMimeTypes |-> MatchingRules(m)]
EarliestRuleOf == [m \in ListedMimeTypes |-> EarliestRule(m)]

RuleTag(rule) ==
    CASE rule = "image" -> "image"
      [] rule = "unsupported" -> "unsupported"
      [] OTHER -> "text"

\* C7: after a successful primary fetch the file is handled by the earliest
\* rule of pdf > word-processing > presentation > image > text that its MIME
\* type matches; the returned tag is that rule's tag, the text is that
\* rule's extraction, and a MIME type matching no rule is Unsupported with
\* the literal MIME type in the reason.
C7_DispatchPrecedence ==
    \A k \in DOMAIN trace :
        trace[k].fetch = "ok" =>
            LET t == trace[k]
                rule == EarliestRuleOf[t.mimeType]
            IN  /\ t.rule = rule
                /\ ~t.raised =>
                    /\ t.type = RuleTag(rule)
                    /\ t.type = "text" => t.content = ExtractedText(rule, t.id)
                    /\ t.type = "unsupported" =>
                            Contains("'" \o t.mimeType \o "'", t.content)

\* a file whose MIME type matches the image and the text rule came back as
\* an image, and one matching the pdf and the text rule as pdf text
C7_Witness ==
    /\ \E k \in DOMAIN trace :
        /\ trace[k].fetch = "ok" /\ ~trace[k].raised
        /\ {4, 5} \subseteq MatchingRulesOf[trace[k].mimeType]
        /\ trace[k].type = "image"
    /\ \E k \in DOMAIN trace :
        /\ trace[k].fetch = "ok" /\ ~trace[k].raised
        /\ {1, 5} \subseteq MatchingRulesOf[trace[k].mimeType]
        /\ trace[k].content = ExtractedText("pdf", trace[k].id)

\* provider-native: a MIME type of the google-apps family
NativeMimeTypes == {m \in ListedMimeTypes : Contains("google-apps", m)}
Native(mime) == mime \in NativeMimeTypes

Exportable ==
    {"application/vnd.google-apps.document",
     "application/vnd.google-apps.spreadsheet",
     "application/vnd.google-apps.presentation"}

ExpectedExport(mime) ==
    IF mime = "application/vnd.google-apps.spreadsheet" THEN "text/csv" ELSE "text/plain"

\* what the fallback does whatever the class of the fetch failure
FallbackCommon(t) ==
    LET exports == ExportRequests(t.id)
    IN  /\ Cardinality(exports) <= 1
        /\ \A i \in exports :
            /\ reqs[i].arg = ExpectedExport(t.mimeType)
            /\ reqs[i].failed =>
                    (~t.raised /\ t.type = "unsupported"
                        /\ StartsWith(t.content, "Export Error"))
        /\ t.mimeType = "application/vnd.google-apps.shortcut" =>
                (~t.raised /\ t.type = "unsupported" /\ exports = {}
                    /\ t.content = "Google Drive Shortcut")
        /\ (Native(t.mimeType)
                /\ t.mimeType \notin Exportable \cup {"application/vnd.google-apps.shortcut"}) =>
                (~t.raised /\ t.type = "unsupported" /\ exports = {}
                    /\ Contains(t.mimeType, t.content))

----------------------------------------------------------------------------
(* The synthesis payload *)

B64Index(c) == CHOOSE n \in 0..63 : B64Char(n) = c

RECURSIVE B64Decode(_)
\* base64 decoding, written from the format and not from B64Encode
B64Decode(s) ==
    IF Len(s) < 4 THEN <<>>
    ELSE LET c1 == B64Index(SubSeq(s, 1, 1))
             c2 == B64Index(SubSeq(s, 2, 2))
             p3 == SubSeq(s, 3, 3)
             p4 == SubSeq(s, 4, 4)
             b1 == c1 * 4 + c2 \div 16
         IN  IF p3 = "=" THEN <<b1>>
             ELSE LET c3 == B64Index(p3)
                      b2 == (c2 % 16) * 16 + c3 \div 4
                  IN  IF p4 = "=" THEN <<b1, b2>>
                      ELSE <<b1, b2, (c3 % 4) * 64 + B64Index(p4)>>
                               \o B64Decode(SubSeq(s, 5, Len(s)))

\* the response get_ai_response returned for the k-th file's summary
SummaryResponse(k) ==
    reqs[CHOOSE i \in SummaryRequests(k) : TRUE].response

RECURSIVE SummariesInSelectionOrder(_)
\* the summary entries of the files whose summarization succeeded, from the
\* k-th selected file on, in selection order
SummariesInSelectionOrder(k) ==
    IF k > Len(selected) THEN <<>>
    ELSE (IF SummarizationSucceeded(k)
          THEN << SummaryHeader(NameOf(k)) \o SummaryResponse(k) >>
          ELSE <<>>) \o SummariesInSelectionOrder(k + 1)

RECURSIVE ImagesInSelectionOrder(_)
\* the bytes of the files that came back as images, in selection order
ImagesInSelectionOrder(k) ==
    IF k > Len(trace) THEN <<>>
    ELSE (IF ~trace[k].raised /\ trace[k].type = "image"
          THEN << DriveBytes(trace[k].id) >>
          ELSE <<>>) \o ImagesInSelectionOrder(k + 1)

DataUrlPrefix == "data:image/jpeg;base64,"

====
